---- MODULE Spec2Model ----
(***************************************************************************)
(* Percepto (src/app.py): the image size reducer (_image_to_base64), the   *)
(* description-and-narration pipeline (analyze_image, _generate_audio) and *)
(* the upload gate of the Streamlit page (render_upload_section, main).    *)
(***************************************************************************)
EXTENDS Integers, Sequences, FiniteSets, TLC

VARIABLES
    widget,            \* value of the file_uploader / camera_input widget
    uploaded_file,     \* st.session_state.uploaded_file
    analysis_results,  \* st.session_state.analysis_results
    notice,            \* what render_upload_section last reported (st.error / st.success)
    displayed,         \* whether the last render passed the upload to st.image
    button_shown,      \* whether the last render drew the Analyze button
    leaked_tmp,        \* temporary .wav files left on the filesystem
    pc,                \* position inside main / analyze_image / _image_to_base64
    image,             \* local `image` of analyze_image and _image_to_base64
    idx,               \* position of the running for-loop
    stages,            \* every image.save of the current _image_to_base64 call, in order
    payload,           \* value returned by _image_to_base64
    requests,          \* every client.messages.create of the current analyze_image call
    description,       \* local `description` of analyze_image
    synth,             \* synthesis backends called by the current analyze_image call
    tmp_file,          \* the temporary file of the current _generate_audio call
    audio,             \* value returned by _generate_audio
    exc,               \* the try block in which an exception is in flight
    result             \* value returned by analyze_image

sessionVars == <<widget, uploaded_file, analysis_results, notice, displayed, button_shown>>
reducerVars == <<image, idx, stages, payload>>
pipelineVars == <<requests, description, synth, tmp_file, audio, result>>
vars == <<sessionVars, leaked_tmp, pc, reducerVars, pipelineVars, exc>>

----------------------------------------------------------------------------
(* Bounds of the model *)

\* longest side, in pixels, of the images the model draws
MaxSide == 4000
\* largest upload, in bytes, the model draws (12 MiB)
LargestUpload == 12582912
\* temporary files that may pile up on the filesystem before the model stops leaking more
MaxLeaked == 2

----------------------------------------------------------------------------
(* Values *)

NoFile == [tag |-> "None"]
NoImage == [tag |-> "None"]
NoPayload == [tag |-> "None"]
NoResult == [tag |-> "None"]
NoNotice == [tag |-> "None"]
None == "None"

Max(a, b) == IF a >= b THEN a ELSE b
Abs(a) == IF a >= 0 THEN a ELSE 0 - a
Last(s) == s[Len(s)]

----------------------------------------------------------------------------
(* _image_to_base64: the image size reducer *)

\* line 69
max_size == 1920
\* line 74
max_size_bytes == 5 * 1024 * 1024
\* line 76
QualityLevels == <<85, 70, 50, 30>>
\* line 85
ResizeDims == <<1280, 960, 640>>
\* line 89
resize_quality == 50
\* line 96
FallbackDimTypo == 480 * 10
fallback_dim == 480
\* line 98
fallback_quality == 30

\* Modes PIL's JPEG encoder writes (JpegImagePlugin.RAWMODE); image.save raises
\* OSError("cannot write mode ... as JPEG") on every other mode.
JpegModes == {"1", "L", "RGB", "RGBX", "CMYK", "YCbCr"}
\* Modes a decoded PNG / JPEG / BMP / WEBP upload can have.
Modes == {"L", "RGB", "CMYK", "RGBA", "LA", "P"}

JpegWritable(mode) == mode \in JpegModes
\* Image.open reads the header only; the pixel data is decoded by the first
\* operation that needs it, which raises OSError on a truncated file.
Loadable(img) == img.flaw = "ok"
\* line 109: Image.open raises UnidentifiedImageError on bytes that are no image
Identifiable(img) == img.flaw # "corrupt"

\* line 65-66: only RGBA is flattened
Convert(mode) == IF mode = "RGBA" THEN "RGB" ELSE mode

\* Python float division p / q (IEEE 754 binary64, round to nearest, ties to
\* even) for integers 0 < p, q: the quotient is normalised to [1, 2), its 53
\* significant bits come from long division, and the remainder decides the
\* rounding.  The value is (hi * 2^27 + lo) * 2^(e - 52).
RECURSIVE Normalised(_, _, _)
Normalised(p, q, e) ==
    IF p < q THEN Normalised(2 * p, q, e - 1)
    ELSE IF p >= 2 * q THEN Normalised(p, 2 * q, e + 1)
    ELSE <<p, q, e>>
\* n more quotient bits appended to acc; <<quotient, remainder>>
RECURSIVE LongDiv(_, _, _, _)
LongDiv(r, q, n, acc) ==
    IF n = 0 THEN <<acc, r>>
    ELSE IF 2 * r >= q THEN LongDiv(2 * r - q, q, n - 1, 2 * acc + 1)
    ELSE LongDiv(2 * r, q, n - 1, 2 * acc)
FloatDiv(p, q) ==
    LET nm == Normalised(p, q, 0)
        top == LongDiv(nm[1] - nm[2], nm[2], 25, 1)
        low == LongDiv(top[2], nm[2], 27, 0)
        r == low[2]
        up == 2 * r > nm[2] \/ (2 * r = nm[2] /\ low[1] % 2 = 1)
        lo == IF up THEN low[1] + 1 ELSE low[1]
    IN  IF lo = 2 ^ 27
        THEN [e |-> nm[3], hi |-> top[1] + 1, lo |-> 0]
        ELSE [e |-> nm[3], hi |-> top[1], lo |-> lo]
\* a float as the integer <<hi, lo>> (hi * 2^27 + lo) in units of 2^(emin - 52)
Scaled(x, emin) ==
    LET l == x.lo * 2 ^ (x.e - emin)
    IN  <<x.hi * 2 ^ (x.e - emin) + l \div 2 ^ 27, l % 2 ^ 27>>
WideSum(a, b) == <<a[1] + b[1] + (a[2] + b[2]) \div 2 ^ 27, (a[2] + b[2]) % 2 ^ 27>>
WideLeq(a, b) == a[1] < b[1] \/ (a[1] = b[1] /\ a[2] <= b[2])
Min(a, b) == IF a <= b THEN a ELSE b
\* x + y <= 2 * z for floats x, y, z
SumLeqTwice(x, y, z) ==
    LET emin == Min(Min(x.e, y.e), z.e)
    IN  WideLeq(WideSum(Scaled(x, emin), Scaled(y, emin)),
                WideSum(Scaled(z, emin), Scaled(z, emin)))
\* 2 * z <= x + y for floats x, y, z
TwiceLeqSum(z, x, y) ==
    LET emin == Min(Min(x.e, y.e), z.e)
    IN  WideLeq(WideSum(Scaled(z, emin), Scaled(z, emin)),
                WideSum(Scaled(x, emin), Scaled(y, emin)))
\* 2 * z <= x for floats x, z
TwiceLeq(z, x) ==
    LET emin == Min(x.e, z.e)
    IN  WideLeq(WideSum(Scaled(z, emin), Scaled(z, emin)), Scaled(x, emin))

\* PIL round_aspect takes, of the floor and the ceiling of num / den, the one
\* whose key is smaller (the floor on a tie), and at least 1.
Floor(num, den) == num \div den
Ceil(num, den) == (num + den - 1) \div den

\* Image.thumbnail((bound, bound)): PIL's preserve_aspect_ratio.  The keys are
\* floats.  Where the two exact keys differ they differ by far more than the
\* rounding error and the exact comparison decides; where they are equal the
\* rounding of the divisions decides (the subtractions are exact), and the
\* floor is taken when its float key is the smaller or the same.
Thumbnail(w, h, bound) ==
    IF bound >= w /\ bound >= h THEN <<w, h>>
    ELSE IF w <= h
    THEN \* x = round_aspect(y * aspect, key = |aspect - n / y|), y = bound
         LET f == Floor(bound * w, h)
             c == Ceil(bound * w, h)
             kf == Abs(w * bound - f * h)
             kc == Abs(w * bound - c * h)
             floorWins ==
                 IF kf # kc \/ f = c THEN kf <= kc
                 ELSE IF f = 0
                 THEN \* aspect - 0 <= c / y - aspect
                      TwiceLeq(FloatDiv(w, h), FloatDiv(c, bound))
                 ELSE \* aspect - f / y <= c / y - aspect
                      TwiceLeqSum(FloatDiv(w, h), FloatDiv(f, bound), FloatDiv(c, bound))
         IN  <<Max(IF floorWins THEN f ELSE c, 1), bound>>
    ELSE \* y = round_aspect(x / aspect, key = 0 if n = 0 else |aspect - x / n|), x = bound
         LET f == Floor(bound * h, w)
             c == Ceil(bound * h, w)
             kf == IF f = 0 THEN 0 ELSE Abs(w * f - bound * h) * c
             kc == IF c = 0 THEN 0 ELSE Abs(w * c - bound * h) * f
             floorWins ==
                 IF f = 0 \/ kf # kc \/ f = c THEN kf <= kc
                 ELSE \* x / f - aspect <= aspect - x / c
                      SumLeqTwice(FloatDiv(bound, f), FloatDiv(bound, c), FloatDiv(w, h))
         IN  <<bound, Max(IF floorWins THEN f ELSE c, 1)>>

Resized(img, bound) ==
    LET wh == Thumbnail(img.width, img.height, bound)
    IN  [img EXCEPT !.width = wh[1], !.height = wh[2]]

Exceeds(img, bound) == img.width > bound \/ img.height > bound

\* The JPEG encoder (image.save(buffer, format='JPEG', ...)) is PIL's, not this
\* program's: its output length is the environment's choice.  What the format
\* fixes is a ceiling on that length: the image is coded in 16-pixel units, a
\* pixel has at most four samples, and an entropy-coded sample (an optimised
\* Huffman symbol, its magnitude bits, byte stuffing) takes less than 4.75
\* bytes; headers, tables and a comment segment add less than JpegOverheadBytes.
JpegMaxBytesPerPixel == 19
JpegOverheadBytes == 70000
JpegMinBytes == 125
Pad16(n) == ((n + 15) \div 16) * 16
MaxEncodedBytes(img) ==
    JpegOverheadBytes + Pad16(img.width) * Pad16(img.height) * JpegMaxBytesPerPixel
\* the lengths the model lets the encoder return: a small one, the largest one,
\* and the ones around the 5 MiB ceiling
EncodedSizes(img) ==
    {n \in {JpegMinBytes, max_size_bytes - 1, max_size_bytes, MaxEncodedBytes(img)} :
        n <= MaxEncodedBytes(img)}

\* line 81, 92
AcceptsUpTo(n) == n <= max_size_bytes
Accepts(n) == n < max_size_bytes

Stage(q, bound, img, n) ==
    [quality |-> q, bound |-> bound, width |-> img.width, height |-> img.height, bytes |-> n]
\* line 82, 93, 100
Payload(n) == [tag |-> "payload", bytes |-> n, format |-> "jpeg"]

\* image.save on a mode the JPEG encoder does not write: OSError out of _image_to_base64
Raise(site) ==
    /\ pc' = "raised"
    /\ exc' = site
SaveRaises ==
    /\ Raise("save")
    /\ UNCHANGED <<reducerVars>>
CanSave(img) == Loadable(img) /\ JpegWritable(img.mode)

\* line 65-71
ConvertAndFit ==
    /\ pc = "convert"
    /\ IF ~Loadable(image) /\ (Convert(image.mode) # image.mode \/ Exceeds(image, max_size))
       THEN Raise("load") /\ UNCHANGED <<image, idx>>
       ELSE /\ image' = LET im == [image EXCEPT !.mode = Convert(image.mode)]
                        IN  IF Exceeds(im, max_size) THEN Resized(im, max_size) ELSE im
            /\ idx' = 1
            /\ pc' = "quality"
            /\ exc' = exc
    /\ UNCHANGED <<sessionVars, leaked_tmp, stages, payload, pipelineVars>>

\* line 76-82: one iteration of the quality loop
TryQuality ==
    /\ pc = "quality"
    /\ IF ~CanSave(image) THEN SaveRaises
       ELSE \E n \in EncodedSizes(image) :
            /\ stages' = Append(stages, Stage(QualityLevels[idx], max_size, image, n))
            /\ IF Accepts(n)
               THEN payload' = Payload(n) /\ pc' = "reduced" /\ idx' = idx
               ELSE /\ payload' = payload
                    /\ IF idx < Len(QualityLevels)
                       THEN idx' = idx + 1 /\ pc' = "quality"
                       ELSE idx' = 1 /\ pc' = "resize"
            /\ UNCHANGED <<image, exc>>
    /\ UNCHANGED <<sessionVars, leaked_tmp, pipelineVars>>

AfterResize(i) == IF i < Len(ResizeDims) THEN <<i + 1, "resize">> ELSE <<1, "fallback">>

\* line 85-93: one iteration of the resize loop on an image that exceeds max_dim
TryResize ==
    /\ pc = "resize"
    /\ Exceeds(image, ResizeDims[idx])
    /\ LET im == Resized(image, ResizeDims[idx]) IN
       IF ~CanSave(im) THEN SaveRaises
       ELSE \E n \in EncodedSizes(im) :
            /\ image' = im
            /\ stages' = Append(stages, Stage(resize_quality, ResizeDims[idx], im, n))
            /\ IF Accepts(n)
               THEN payload' = Payload(n) /\ pc' = "reduced" /\ idx' = idx
               ELSE /\ payload' = payload
                    /\ idx' = AfterResize(idx)[1]
                    /\ pc' = AfterResize(idx)[2]
            /\ exc' = exc
    /\ UNCHANGED <<sessionVars, leaked_tmp, pipelineVars>>

\* line 85-86: an iteration of the resize loop on an image within max_dim
SkipResize ==
    /\ pc = "resize"
    /\ ~Exceeds(image, ResizeDims[idx])
    /\ idx' = AfterResize(idx)[1]
    /\ pc' = AfterResize(idx)[2]
    /\ UNCHANGED <<sessionVars, leaked_tmp, image, stages, payload, pipelineVars, exc>>

\* line 96-100: returned without a size check
FinalFallback ==
    /\ pc = "fallback"
    /\ LET im == Resized(image, fallback_dim) IN
       IF ~CanSave(im) THEN SaveRaises
       ELSE \E n \in EncodedSizes(im) :
            /\ image' = im
            /\ stages' = Append(stages, Stage(fallback_quality, fallback_dim, im, n))
            /\ payload' = Payload(n)
            /\ pc' = "reduced"
            /\ UNCHANGED <<idx, exc>>
    /\ UNCHANGED <<sessionVars, leaked_tmp, pipelineVars>>

image_to_base64 ==
    \/ ConvertAndFit
    \/ TryQuality
    \/ TryResize
    \/ SkipResize
    \/ FinalFallback

----------------------------------------------------------------------------
(* analyze_image and _generate_audio: the description-and-narration pipeline *)

\* line 49-54
vision_models ==
    <<"claude-3-5-sonnet-20241022", "claude-3-5-haiku-20241022",
      "claude-3-sonnet-20240229", "claude-3-haiku-20240307">>

\* What client.messages.create can do: raise, or return a response whose
\* content is a list of blocks (here: of their texts), possibly empty.
Texts == {"", "a red ball"}
Responses ==
    {[raised |-> TRUE, content |-> <<>>], [raised |-> FALSE, content |-> <<>>]}
        \cup {[raised |-> FALSE, content |-> <<t>>] : t \in Texts}

\* line 150-154
SuccessResultFirstModel(d, a, i) ==
    [description |-> d, audio_file |-> a, model_used |-> vision_models[1]]
SuccessResultAudioRequired(d, a, i) ==
    IF a = None THEN [error |-> "Audio generation failed"]
    ELSE [description |-> d, audio_file |-> a, model_used |-> vision_models[i]]
SuccessResult(d, a, i) ==
    [description |-> d, audio_file |-> a, model_used |-> vision_models[i]]
\* line 105, 160, 163
ErrorResult(msg) == [error |-> msg]

\* The try block that encloses each place an exception can start from, and so
\* the except clause that receives it: line 138/156 (inner), line 107/162 (outer).
HandlerInnerOnly(site) ==
    CASE site \in {"request", "content"} -> "inner"
      [] OTHER -> "none"
HandlerOuterOnly(site) ==
    CASE site \in {"request", "content", "open", "load", "save"} -> "outer"
      [] OTHER -> "none"
Handler(site) ==
    CASE site \in {"request", "content"} -> "inner"
      [] site \in {"open", "load", "save"} -> "outer"
      [] OTHER -> "none"

\* line 137: the next iteration of the loop over vision_models, or line 160 after the last
NextModel(i) == IF i < Len(vision_models) THEN <<i + 1, "models">> ELSE <<i, "exhausted">>

\* line 428: PerceptoAI() and line 104-109: the entry of analyze_image
Construct ==
    /\ pc = "construct"
    /\ \E env \in {"no_key", "no_client", "ok"} :
          CASE env = "no_key" ->
                  \* line 43-44: ValueError, received by main's except (line 438)
                  /\ pc' = "idle"
                  /\ UNCHANGED <<image, result, exc>>
            [] env = "no_client" ->
                  \* line 104-105
                  /\ result' = ErrorResult("Claude client not initialized")
                  /\ pc' = "returned"
                  /\ UNCHANGED <<image, exc>>
            [] env = "ok" ->
                  \* line 109
                  /\ IF Identifiable(uploaded_file.img)
                     THEN image' = uploaded_file.img /\ pc' = "convert" /\ exc' = exc
                     ELSE Raise("open") /\ image' = image
                  /\ UNCHANGED result
    /\ UNCHANGED <<sessionVars, leaked_tmp, idx, stages, payload, requests, description,
                   synth, tmp_file, audio>>

\* line 110-137: _image_to_base64 has returned; the message is built and the loop starts
EnterModels ==
    /\ pc = "reduced"
    /\ pc' = "models"
    /\ idx' = 1
    /\ image' = NoImage
    /\ stages' = <<>>
    /\ UNCHANGED <<sessionVars, leaked_tmp, payload, pipelineVars, exc>>

\* line 138-145: one request to vision_models[idx]
RequestVariant ==
    /\ pc = "models"
    /\ \E resp \in Responses :
          /\ requests' = Append(requests, [model |-> vision_models[idx], response |-> resp])
          /\ IF resp.raised THEN Raise("request") /\ UNCHANGED description
             ELSE IF Len(resp.content) = 0 THEN Raise("content") /\ UNCHANGED description
             ELSE /\ description' = resp.content[1]
                  /\ pc' = "tts_primary"
                  /\ exc' = exc
    /\ UNCHANGED <<sessionVars, leaked_tmp, reducerVars, synth, tmp_file, audio, result>>

\* line 156-163: the except clause that receives the exception in flight
Unwind ==
    /\ pc = "raised"
    /\ exc' = "none"
    /\ CASE Handler(exc) = "inner" ->
              \* line 156-158: continue
              /\ idx' = NextModel(idx)[1]
              /\ pc' = NextModel(idx)[2]
              /\ UNCHANGED <<result, image, stages>>
         [] Handler(exc) = "outer" ->
              \* line 162-163
              /\ result' = ErrorResult("Analysis failed")
              /\ pc' = "returned"
              /\ image' = NoImage
              /\ stages' = <<>>
              /\ UNCHANGED idx
         [] OTHER ->
              \* no except clause: the exception leaves analyze_image
              /\ pc' = "escaped"
              /\ UNCHANGED <<result, image, stages, idx>>
    /\ UNCHANGED <<sessionVars, leaked_tmp, payload, requests, description, synth,
                   tmp_file, audio>>

\* line 160
AllModelsFailed ==
    /\ pc = "exhausted"
    /\ result' = ErrorResult("All models failed. Please try again later.")
    /\ pc' = "returned"
    /\ UNCHANGED <<sessionVars, leaked_tmp, reducerVars, requests, description, synth,
                   tmp_file, audio, exc>>

\* line 167-174: gTTS
GenerateAudioPrimary ==
    /\ pc = "tts_primary"
    /\ \E ok \in BOOLEAN :
          /\ synth' = Append(synth, [backend |-> "gTTS", ok |-> ok])
          /\ IF ok THEN audio' = "mp3" /\ pc' = "synthesized"
             ELSE audio' = audio /\ pc' = "tts_offline"
    /\ UNCHANGED <<sessionVars, leaked_tmp, reducerVars, requests, description,
                   tmp_file, result, exc>>

\* What the offline backend can do: pyttsx3.init() or NamedTemporaryFile raises
\* (line 177-181, no file yet); save_to_file / runAndWait raises (line 182-183);
\* reading the file back raises (line 185-186); or all of it succeeds.
OfflineOutcomes == {"init_failed", "write_failed", "read_failed", "ok"}

\* line 181-191: what is left of the temporary file when _generate_audio returns
TmpAfter(outcome) ==
    CASE outcome = "init_failed" -> "none"
      [] outcome = "ok" -> "deleted"
      [] OTHER -> "left"

\* line 175-191: pyttsx3
GenerateAudioOffline ==
    /\ pc = "tts_offline"
    /\ \E outcome \in OfflineOutcomes :
          /\ synth' = Append(synth, [backend |-> "pyttsx3", ok |-> outcome = "ok"])
          /\ TmpAfter(outcome) = "left" => leaked_tmp < MaxLeaked
          /\ tmp_file' = TmpAfter(outcome)
          /\ leaked_tmp' = IF TmpAfter(outcome) = "left" THEN leaked_tmp + 1 ELSE leaked_tmp
          /\ audio' = IF outcome = "ok" THEN "wav" ELSE None
    /\ pc' = "synthesized"
    /\ UNCHANGED <<sessionVars, reducerVars, requests, description, result, exc>>

\* line 148-154
ReturnSuccess ==
    /\ pc = "synthesized"
    /\ result' = SuccessResult(description, audio, idx)
    /\ pc' = "returned"
    /\ UNCHANGED <<sessionVars, leaked_tmp, reducerVars, requests, description, synth,
                   tmp_file, audio, exc>>


----------------------------------------------------------------------------
(* The reducer on its own, over every image of the bounded input space *)

Sides == {1, 479, 480, 481, 640, 641, 961, 1281, 1920, 1921, 3000, MaxSide}
Images == [tag : {"image"}, width : Sides, height : Sides, mode : Modes, flaw : {"ok"}]

InitSession ==
    /\ widget = NoFile
    /\ uploaded_file = NoFile
    /\ analysis_results = NoResult
    /\ notice = NoNotice
    /\ displayed = FALSE
    /\ button_shown = FALSE
    /\ leaked_tmp = 0

InitLocals ==
    /\ idx = 1
    /\ stages = <<>>
    /\ payload = NoPayload
    /\ requests = <<>>
    /\ description = None
    /\ synth = <<>>
    /\ tmp_file = "none"
    /\ audio = None
    /\ exc = "none"
    /\ result = NoResult

InitReducer ==
    /\ InitSession
    /\ InitLocals
    /\ image \in Images
    /\ pc = "convert"

SpecReducer == InitReducer /\ [][image_to_base64]_vars

----------------------------------------------------------------------------
(* render_upload_section and main: one run of the Streamlit script *)

\* line 257
max_size_mb == 10
\* line 258
upload_max_size_bytes == max_size_mb * 1024 * 1024

\* line 261, 266: f"{file_size / 1024 / 1024:.1f}" as <<whole part, first decimal>>;
\* the quotient is exact in binary floating point and the format rounds half to even
OneDecimal(bytes) ==
    LET num == bytes * 10
        den == 1024 * 1024
        q == num \div den
        r == num % den
        tenths == IF 2 * r > den \/ (2 * r = den /\ q % 2 = 1) THEN q + 1 ELSE q
    IN  <<tenths \div 10, tenths % 10>>

\* line 260
TooLargeFrom(file_size) == file_size >= upload_max_size_bytes
TooLarge(file_size) == file_size > upload_max_size_bytes

\* the uploads the model draws
UploadSizes ==
    {256 * 1024, upload_max_size_bytes, upload_max_size_bytes + 1,
     41 * 256 * 1024, 11 * 1024 * 1024, LargestUpload}
SessionImages ==
    {[tag |-> "image", width |-> MaxSide, height |-> MaxSide, mode |-> "CMYK", flaw |-> "ok"],
     [tag |-> "image", width |-> 961, height |-> 1000, mode |-> "RGBA", flaw |-> "ok"],
     [tag |-> "image", width |-> 640, height |-> 480, mode |-> "P", flaw |-> "ok"],
     [tag |-> "image", width |-> 3000, height |-> 1920, mode |-> "RGB", flaw |-> "truncated"],
     [tag |-> "image", width |-> 1, height |-> 1, mode |-> "RGB", flaw |-> "corrupt"]}
Uploads == [tag : {"file"}, size : UploadSizes, img : SessionImages]

\* line 252-277 and 425: f is the widget's value in this run, click whether the
\* run was started by the Analyze button (drawn by the run before, for the same file)
Render(f, click) ==
    /\ pc = "idle"
    /\ click => button_shown /\ f = widget
    /\ widget' = f
    /\ IF f # NoFile
       THEN IF TooLarge(f.size)
            THEN /\ notice' = [tag |-> "error", limit |-> max_size_mb, size |-> OneDecimal(f.size)]
                 /\ uploaded_file' = NoFile
                 /\ displayed' = FALSE
            ELSE /\ uploaded_file' = f
                 /\ notice' = [tag |-> "success", size |-> OneDecimal(f.size)]
                 /\ displayed' = TRUE
       ELSE /\ uploaded_file' = NoFile
            /\ notice' = NoNotice
            /\ displayed' = FALSE
    /\ button_shown' = (uploaded_file' # NoFile)
    /\ pc' = IF button_shown' /\ click THEN "construct" ELSE "idle"
    /\ UNCHANGED <<analysis_results, leaked_tmp, reducerVars, pipelineVars, exc>>

\* a run started by anything but the Analyze button
RenderUpload == \E f \in Uploads \cup {NoFile} : Render(f, FALSE)
\* a run started by the Analyze button
ClickAnalyze == Render(widget, TRUE)

\* line 431: "error" in results
IsError(r) == "error" \in DOMAIN r

\* line 431-436: what session_state.analysis_results holds after analyze_image returned r
StoredAfterAnyReturn(r, old) == r
StoredAfter(r, old) == IF IsError(r) THEN old ELSE r

\* line 287-318: what render_results_section shows for the stored results
render_results_section(results) ==
    IF results # NoResult
    THEN [shown |-> "results", description |-> results.description,
          audio |-> results.audio_file # None]
    ELSE [shown |-> "placeholder"]

\* line 429-443: analyze_image has returned, or its exception reached main's except
Finish ==
    /\ pc \in {"returned", "escaped"}
    /\ analysis_results' =
          IF pc = "returned" THEN StoredAfter(result, analysis_results) ELSE analysis_results
    /\ pc' = "idle"
    /\ image' = NoImage
    /\ idx' = 1
    /\ stages' = <<>>
    /\ payload' = NoPayload
    /\ requests' = <<>>
    /\ description' = None
    /\ synth' = <<>>
    /\ tmp_file' = "none"
    /\ audio' = None
    /\ exc' = "none"
    /\ result' = NoResult
    /\ UNCHANGED <<widget, uploaded_file, notice, displayed, button_shown, leaked_tmp>>

Init ==
    /\ InitSession
    /\ InitLocals
    /\ image = NoImage
    /\ pc = "idle"

Next ==
    \/ RenderUpload
    \/ ClickAnalyze
    \/ Construct
    \/ ConvertAndFit
    \/ TryQuality
    \/ TryResize
    \/ SkipResize
    \/ FinalFallback
    \/ EnterModels
    \/ RequestVariant
    \/ Unwind
    \/ AllModelsFailed
    \/ GenerateAudioPrimary
    \/ GenerateAudioOffline
    \/ ReturnSuccess
    \/ Finish

Spec == Init /\ [][Next]_vars

----------------------------------------------------------------------------
(* Claims about the reducer, checked under SpecReducer *)

\* the stages of the claim, in its order: <<quality, longest side>>
StagePlan ==
    <<  <<85, 1920>>, <<70, 1920>>, <<50, 1920>>, <<30, 1920>>,
        <<50, 1280>>, <<50, 960>>, <<50, 640>>, <<30, 480>>  >>
PlanIndex(st) == CHOOSE i \in 1..Len(StagePlan) : StagePlan[i] = <<st.quality, st.bound>>
Planned(st) == \E i \in 1..Len(StagePlan) : StagePlan[i] = <<st.quality, st.bound>>
Returned == pc = "reduced"

\* C1: every payload the reducer returns, on every return path including the
\* final 480-pixel / quality-30 fallback, is strictly shorter than 5 MiB.
C1_PayloadBelowCeiling ==
    Returned => payload.tag = "payload" /\ payload.bytes < 5 * 1024 * 1024

\* C1 witness: the reducer returned from the final fallback, every earlier
\* stage having produced 5 MiB or more.
C1_FallbackReturned ==
    /\ Returned
    /\ Len(stages) = 8
    /\ Last(stages).quality = 30 /\ Last(stages).bound = 480
    /\ payload.bytes = Last(stages).bytes

\* C2: the reducer never ends in an encoding error; it returns a result for
\* every colour mode, including every mode that carries an alpha channel.
C2_NeverRaises == pc # "raised"

\* C10: the stages are attempted in the fixed order, a resize stage is
\* attempted exactly when the image exceeds its bound (attempted only on an
\* image that exceeds it, left out only on an image within it), the first
\* stage whose length is strictly below 5 MiB is returned and nothing is
\* attempted after it, and the dimensions never grow from stage to stage.
C10_StageOrder ==
    /\ \A i \in 1..Len(stages) :
          /\ Planned(stages[i])
          /\ stages[i].width <= stages[i].bound /\ stages[i].height <= stages[i].bound
          /\ i <= 4 => PlanIndex(stages[i]) = i
          \* a resize stage is attempted only on an image that exceeds its bound
          /\ PlanIndex(stages[i]) \in 5..7 =>
                /\ i > 1
                /\ \/ stages[i - 1].width > stages[i].bound
                   \/ stages[i - 1].height > stages[i].bound
          /\ i < Len(stages) =>
                /\ PlanIndex(stages[i]) < PlanIndex(stages[i + 1])
                /\ stages[i].bytes >= 5 * 1024 * 1024
                /\ stages[i + 1].width <= stages[i].width
                /\ stages[i + 1].height <= stages[i].height
                \* the stages left out between two attempts are resize stages the
                \* image was already within
                /\ \A p \in (PlanIndex(stages[i]) + 1)..(PlanIndex(stages[i + 1]) - 1) :
                      /\ p \in 5..7
                      /\ stages[i].width <= StagePlan[p][2]
                      /\ stages[i].height <= StagePlan[p][2]
    /\ IF Returned
       THEN /\ Len(stages) >= 1
            /\ Last(stages).bytes < 5 * 1024 * 1024
            /\ payload.bytes = Last(stages).bytes
       ELSE /\ payload = NoPayload
            /\ \A i \in 1..Len(stages) : stages[i].bytes >= 5 * 1024 * 1024

\* C10 witness: a result of exactly 5 MiB was passed over, the 1280 stage was
\* left out on an image within 1280, the 960 and 640 stages were attempted on
\* images that exceeded them, and the 640 stage was returned.
C10_SkippedThenAccepted ==
    /\ Returned
    /\ Len(stages) = 6
    /\ stages[4].bytes = 5 * 1024 * 1024
    /\ stages[4].width <= 1280 /\ stages[4].height <= 1280
    /\ PlanIndex(stages[5]) = 6
    /\ stages[4].width > 960 \/ stages[4].height > 960
    /\ PlanIndex(stages[6]) = 7
    /\ stages[5].width > 640 \/ stages[5].height > 640

----------------------------------------------------------------------------
(* Claims about the pipeline and the upload gate, checked under Spec *)

Errored(req) == req.response.raised \/ Len(req.response.content) = 0
AnalyzeReturned == pc = "returned"
IsSuccess(r) == DOMAIN r = {"description", "audio_file", "model_used"}

\* C3: the variants are requested in priority order, each at most once, a
\* variant only after every earlier one errored, and a success result carries
\* the text and the identifier of the first variant that did not error.
C3_FirstUsableVariantWins ==
    /\ Len(requests) <= 4
    /\ \A i \in 1..Len(requests) :
          /\ requests[i].model = vision_models[i]
          /\ i < Len(requests) => Errored(requests[i])
    /\ (AnalyzeReturned /\ ~IsError(result)) =>
          /\ requests # <<>>
          /\ ~Errored(Last(requests))
          /\ result.description = Last(requests).response.content[1]
          /\ result.model_used = Last(requests).model

\* C3 witness: variants 1-3 failed, variant 4 returned "a red ball".
C3_FourthVariantWon ==
    /\ AnalyzeReturned
    /\ Len(requests) = 4
    /\ \A i \in 1..3 : Errored(requests[i])
    /\ result = [description |-> "a red ball", audio_file |-> "mp3",
                 model_used |-> "claude-3-haiku-20240307"]

\* C4: when every variant errors the run returns the all-services-unavailable
\* error and no synthesis backend was called; synthesis is only ever called
\* after a variant has succeeded.
C4_NoSynthesisWithoutDescription ==
    /\ (AnalyzeReturned /\ requests # <<>> /\ \A i \in 1..Len(requests) : Errored(requests[i])) =>
          /\ Len(requests) = 4
          /\ result = [error |-> "All models failed. Please try again later."]
          /\ synth = <<>>
    /\ synth # <<>> => requests # <<>> /\ ~Errored(Last(requests))

\* C4 witness: all four variants were requested and all errored.
C4_AllVariantsFailed ==
    /\ AnalyzeReturned
    /\ Len(requests) = 4
    /\ \A i \in 1..4 : Errored(requests[i])
    /\ IsError(result)

\* C5: when a variant succeeds and both synthesis backends fail, the run returns
\* a success result with that variant's text and no audio, not an error, and no
\* further variant is requested.
C5_TextSurvivesSynthesisFailure ==
    /\ (AnalyzeReturned /\ Len(synth) = 2 /\ \A i \in 1..2 : ~synth[i].ok) =>
          /\ ~IsError(result)
          /\ result.description = Last(requests).response.content[1]
          /\ result.audio_file = "None"
          /\ result.model_used = Last(requests).model
    /\ synth # <<>> => ~Errored(Last(requests))
    /\ \A i \in 1..Len(synth) : i < Len(synth) => ~synth[i].ok

\* C5 witness: both backends failed after the second variant succeeded.
C5_BothBackendsFailed ==
    /\ AnalyzeReturned
    /\ Len(requests) = 2
    /\ synth = <<[backend |-> "gTTS", ok |-> FALSE], [backend |-> "pyttsx3", ok |-> FALSE]>>
    /\ IsSuccess(result)
    /\ result.audio_file = "None"

\* C6: when _generate_audio has returned, the temporary file it created for the
\* offline backend no longer exists, on every exit path.
C6_TempFileRemoved == pc = "synthesized" => tmp_file # "left"

\* C7: an upload over 10 MiB is never stored, displayed or analysed and is
\* reported with the limit and its size in MiB to one decimal place (11 MiB as
\* 11.0); an upload of 10 MiB or less is stored.
C7_OversizedUploadRejected ==
    widget # NoFile =>
        IF widget.size > 10 * 1024 * 1024
        THEN /\ uploaded_file = NoFile
             /\ ~displayed
             /\ ~button_shown
             /\ pc = "idle"
             /\ image = NoImage
             /\ notice.tag = "error"
             /\ notice.limit = 10
             \* the reported size is the size to the nearest tenth of a MiB
             /\ notice.size[2] \in 0..9
             /\ 2 * Abs((10 * notice.size[1] + notice.size[2]) * 1024 * 1024 - 10 * widget.size)
                    <= 1024 * 1024
             /\ widget.size = 11 * 1024 * 1024 => notice.size = <<11, 0>>
        ELSE uploaded_file = widget

\* C7 witness: an 11 MiB upload was rejected and reported as 11.0.
C7_ElevenMiBRejected ==
    /\ widget # NoFile
    /\ widget.size = 11 * 1024 * 1024
    /\ notice = [tag |-> "error", limit |-> 10, size |-> <<11, 0>>]
    /\ uploaded_file = NoFile

\* C8: a success result never carries an empty description.
C8_DescriptionNonEmpty ==
    (AnalyzeReturned /\ ~IsError(result)) => result.description # ""

\* C9: no exception leaves analyze_image; it returns either a success value or
\* a single error value with a message, never both.
C9_NoExceptionEscapes ==
    /\ pc # "escaped"
    /\ AnalyzeReturned =>
          \/ IsSuccess(result)
          \/ DOMAIN result = {"error"} /\ result.error # ""

\* C9 witness: an exception raised while encoding was turned into the error value.
C9_EncodingErrorReturned ==
    /\ AnalyzeReturned
    /\ result = [error |-> "Analysis failed"]
    /\ payload = NoPayload
    /\ requests = <<>>

\* C11: analysis_results changes only when an analysis returns a success value,
\* and then to that value; an analysis that ends in an error, the rejection of
\* an oversized upload and the selection or removal of a file leave it as it
\* was, so results once stored stay stored and shown.
C11_ResultsOverwrittenOnlyBySuccess ==
    [][ /\ analysis_results' # analysis_results =>
              /\ pc = "returned"
              /\ IsSuccess(result)
              /\ analysis_results' = result
        /\ (pc = "returned" /\ ~IsSuccess(result)) => analysis_results' = analysis_results
        /\ widget' # widget => analysis_results' = analysis_results
        /\ analysis_results # NoResult =>
              render_results_section(analysis_results').shown = "results" ]_vars

\* C11 witness: an oversized upload was rejected while the results of an
\* earlier successful analysis are still stored and shown.
C11_ResultsKeptAfterRejection ==
    /\ widget # NoFile
    /\ widget.size > 10 * 1024 * 1024
    /\ notice.tag = "error"
    /\ uploaded_file = NoFile
    /\ IsSuccess(analysis_results)
    /\ render_results_section(analysis_results).shown = "results"

====
